---- MODULE Spec2Model ----
(***************************************************************************)
(* A model of src/databuilder.py: DataBuilder.buildSOS (the strength-of-   *)
(* schedule batch over all seasons) and DataBuilder.buildNameFromIdLookup  *)
(* (the id probe with its retry queue).                                    *)
(*                                                                         *)
(* numpy float64 values are modelled as exact non-negative rationals       *)
(* [n, d] in lowest terms, with the two IEEE specials the code can         *)
(* produce: NaN = 0/0 and Inf = x/0.  numpy raises no exception on a       *)
(* division by zero (it warns and yields nan/inf).                         *)
(***************************************************************************)
EXTENDS Integers, Sequences, FiniteSets, TLC

\* ------------------------------------------------------------- bounds
\* Team ids that occur in standings and games are 1..MaxTeams.
MaxTeams == 3
\* Game records consumed over one run of buildSOS.
MaxGames == 3
\* Scores are 0..MaxScore.
MaxScore == 1
\* Dates are 0..MaxDate; a season's window lies in 1..MaxDate-1.
MaxDate == 2
\* len(seasons_list)
NumSeasons == 2
\* buildNameFromIdLookup probes the ids 0..MaxProbeId (the code's range(10001)).
MaxProbeId == 2
\* Team names are 1..MaxNames.
MaxNames == 2

\* ------------------------------------------------- program constants
\* "if home_id > 58 or away_id > 58: continue"
MaxValidId == 58
\* numpy.zeros((59, len(seasons_list)))
TableRows == 59

\* ------------------------------------------------------ float values
RECURSIVE GCD(_, _)
GCD(a, b) == IF b = 0 THEN a ELSE GCD(b, a % b)

NaN == [n |-> 0, d |-> 0]
Inf == [n |-> 1, d |-> 0]
Zero == [n |-> 0, d |-> 1]

Rat(a, b) == LET g == GCD(a, b) IN [n |-> a \div g, d |-> b \div g]
FromInt(k) == [n |-> k, d |-> 1]

IsNaN(v) == v = NaN
IsInf(v) == v = Inf
IsFinite(v) == v.d > 0

\* float addition
Add(x, y) ==
    IF IsNaN(x) \/ IsNaN(y) THEN NaN
    ELSE IF IsInf(x) \/ IsInf(y) THEN Inf
    ELSE Rat(x.n * y.d + y.n * x.d, x.d * y.d)

\* float multiplication (0 * nan = nan, 0 * inf = nan)
Mul(x, y) ==
    IF IsNaN(x) \/ IsNaN(y) THEN NaN
    ELSE IF IsInf(x) THEN (IF y.n = 0 THEN NaN ELSE Inf)
    ELSE IF IsInf(y) THEN (IF x.n = 0 THEN NaN ELSE Inf)
    ELSE Rat(x.n * y.n, x.d * y.d)

\* numpy true division: 0/0 = nan, x/0 = inf, no exception
Div(x, y) ==
    IF IsNaN(x) \/ IsNaN(y) THEN NaN
    ELSE IF IsInf(x) THEN (IF IsInf(y) THEN NaN ELSE Inf)
    ELSE IF IsInf(y) THEN Zero
    ELSE IF y.n = 0 THEN (IF x.n = 0 THEN NaN ELSE Inf)
    ELSE Rat(x.n * y.d, x.d * y.n)

\* ------------------------------------------------------------- state
VARIABLES
    pc,                     \* position in buildSOS
    column_idx,             \* the season being processed (-1 before the loop)
    start_date, end_date,   \* the season's regular-season window
    win_matrix_row_from_id, \* team id -> win matrix row
    id_from_win_matrix_row, \* win matrix row -> team id
    win_matrix,             \* win_matrix[i][j]: wins of row i over row j
    nhl_sos,                \* the team x season table (its assigned cells)
    printed,                \* number of "Exception ... occured handling game" lines
    sos_csv,                \* data/sos.csv: <<>> until written, then <<table>>
    games_read,             \* history: game records consumed in this run
    seen,                   \* history: tallies of this season's consumed games
    lpc,                    \* position in buildNameFromIdLookup
    next_id,                \* the id the first loop probes next
    skipped_ids,            \* the retry queue
    todo,                   \* what is left of skipped_ids.copy() in this pass
    id_from_name,           \* name -> team id
    pickles,                \* <<>> until the two lookups are written
    probed_ok,              \* history: ids with a probe that returned a response
    ow_team,                \* OW step alone: the team t whose OW is compared
    ow_other,               \* OW step alone: the second win matrix
    ow_result               \* OW step alone: <<>>, then <<OW[t] of win_matrix, of ow_other>>

sosVars == <<pc, column_idx, start_date, end_date, win_matrix_row_from_id,
             id_from_win_matrix_row, win_matrix, nhl_sos, printed, sos_csv,
             games_read, seen>>
lookupVars == <<lpc, next_id, skipped_ids, todo, id_from_name, pickles, probed_ok>>
owVars == <<ow_team, ow_other, ow_result>>
vars == <<sosVars, lookupVars, owVars>>

\* ------------------------------------------------------------ inputs
TeamIds == 1..MaxTeams
\* ids a game record can carry: the teams, the first id past the valid range
\* and an exhibition id
GameIds == TeamIds \cup {MaxValidId + 1, 9999}
Dates == 0..MaxDate
Scores == 0..MaxScore
\* A game record of the schedule: two different sides.
Games == {g \in [date : Dates, away_id : GameIds, home_id : GameIds,
                 away_score : Scores, home_score : Scores] :
             g.away_id # g.home_id}

\* Standings listings: every participating team id exactly once (the
\* listing order gives the rows).
Standings == UNION {{s \in [1..k -> TeamIds] :
                        \A a, b \in 1..k : s[a] = s[b] => a = b} : k \in 0..MaxTeams}

Rows(W) == 0..(Cardinality(DOMAIN W) - 1)

\* ------------------------------------------------ buildSOS, helpers
RECURSIVE SumInt(_, _)
SumInt(f, n) == IF n = 0 THEN 0 ELSE f[n - 1] + SumInt(f, n - 1)

RECURSIVE SumVal(_, _)
SumVal(f, n) == IF n = 0 THEN Zero ELSE Add(SumVal(f, n - 1), f[n - 1])

NumRows(W) == Cardinality(DOMAIN W)

\* numpy.sum(W, axis=1)[i]
RowSum(W, i) == SumInt(W[i], NumRows(W))
\* numpy.sum(W, axis=0)[j]
ColSum(W, j) == SumInt([i \in Rows(W) |-> W[i][j]], NumRows(W))

\* _gamesPlayed: column sums plus row sums
gamesPlayed(W) == [t \in Rows(W) |-> ColSum(W, t) + RowSum(W, t)]

\* win_matrix + transpose(win_matrix)
OppPlays(W) == [i \in Rows(W) |-> [j \in Rows(W) |-> W[i][j] + W[j][i]]]

\* the loop over division["teamRecords"]: the last listing of an id wins
RowFromId(s) ==
    [id \in {s[k] : k \in DOMAIN s} |->
        (CHOOSE k \in DOMAIN s :
            s[k] = id /\ \A m \in DOMAIN s : s[m] = id => m <= k) - 1]

\* the inverse dictionary
IdFromRow(rows) ==
    [r \in {rows[id] : id \in DOMAIN rows} |->
        CHOOSE id \in DOMAIN rows : rows[id] = r]

ZeroMatrix(n) == [i \in 0..(n - 1) |-> [j \in 0..(n - 1) |-> 0]]

\* ---------------------------------------- buildSOS, win matrix (Step 1)
\* win_matrix[rows[winner]][rows[loser]] += 1 inside try/except: a KeyError
\* (an id that is no key of the row dictionary) leaves the matrix as it was
\* and prints one line.
TryRecordSilent(W, rows, winner, loser) ==
    IF winner \in DOMAIN rows /\ loser \in DOMAIN rows
    THEN [win_matrix |-> [W EXCEPT ![rows[winner]][rows[loser]] = @ + 1],
          printed |-> 0]
    ELSE [win_matrix |-> W, printed |-> 0]

TryRecord(W, rows, winner, loser) ==
    IF winner \in DOMAIN rows /\ loser \in DOMAIN rows
    THEN [win_matrix |-> [W EXCEPT ![rows[winner]][rows[loser]] = @ + 1],
          printed |-> 0]
    ELSE [win_matrix |-> W, printed |-> 1]

\* One iteration of the populate loop on game record g.
PopulateStepTieIsHomeWin(W, rows, sd, ed, g) ==
    IF ~((sd <= g.date) /\ (g.date <= ed)) THEN [win_matrix |-> W, printed |-> 0]
    ELSE IF g.home_id > MaxValidId \/ g.away_id > MaxValidId
         THEN [win_matrix |-> W, printed |-> 0]
    ELSE IF g.away_score > g.home_score
         THEN TryRecord(W, rows, g.away_id, g.home_id)
    ELSE TryRecord(W, rows, g.home_id, g.away_id)

PopulateStep(W, rows, sd, ed, g) ==
    IF ~((sd <= g.date) /\ (g.date <= ed)) THEN [win_matrix |-> W, printed |-> 0]
    ELSE IF g.home_id > MaxValidId \/ g.away_id > MaxValidId
         THEN [win_matrix |-> W, printed |-> 0]
    ELSE IF g.away_score > g.home_score
         THEN TryRecord(W, rows, g.away_id, g.home_id)
    ELSE IF g.home_score > g.away_score
         THEN TryRecord(W, rows, g.home_id, g.away_id)
    ELSE [win_matrix |-> W, printed |-> 0]

\* ------------------------------------- buildSOS, OW / OOW / SOS (Steps 2-5)
\* sub_wins = copy(win_matrix); sub_wins[team] = 0; sub_wins[:,team] = 0
SubWinsRowOnly(W, team) ==
    [i \in Rows(W) |-> [j \in Rows(W) |-> IF i = team THEN 0 ELSE W[i][j]]]

SubWinsNone(W, team) == W

SubWins(W, team) ==
    [i \in Rows(W) |-> [j \in Rows(W) |->
        IF i = team \/ j = team THEN 0 ELSE W[i][j]]]

\* numpy.divide(wins, games, out=zeros_like(wins), where=games!=0)
OppWs(W, team) ==
    LET sub_wins == SubWins(W, team)
        games == gamesPlayed(sub_wins)
    IN  [k \in Rows(W) |->
            IF games[k] # 0
            THEN Div(FromInt(RowSum(sub_wins, k)), FromInt(games[k]))
            ELSE Zero]

\* ow[team] = oppWs @ transpose(opp_plays[team]) / _gamesPlayed(win_matrix)[team]
OWOf(W, team) ==
    LET oppWs == OppWs(W, team)
        dot == SumVal([k \in Rows(W) |->
                         Mul(oppWs[k], FromInt(OppPlays(W)[team][k]))], NumRows(W))
    IN  Div(dot, FromInt(gamesPlayed(W)[team]))

OW(W) == [t \in Rows(W) |-> OWOf(W, t)]

\* oow = opp_plays @ transpose(ow) / _gamesPlayed(win_matrix)
OOW(W) ==
    LET ow == OW(W)
    IN  [t \in Rows(W) |->
            Div(SumVal([k \in Rows(W) |->
                          Mul(FromInt(OppPlays(W)[t][k]), ow[k])], NumRows(W)),
                FromInt(gamesPlayed(W)[t]))]

\* sos = (2*asarray(ow) + oow) / 3
SOS(W) ==
    LET ow == OW(W)
        oow == OOW(W)
    IN  [t \in Rows(W) |->
            Div(Add(Mul(FromInt(2), ow[t]), oow[t]), FromInt(3))]

\* ------------------------------------------ buildSOS, write-back (Step 6)
\* The table numpy.zeros((59, len(seasons_list))) is kept as the cells that
\* have been assigned: every other cell of the 59 x NumSeasons array still
\* holds its initial 0.0.
TableCells == (0..(TableRows - 1)) \X (0..(NumSeasons - 1))

Cell(table, i, c) == IF <<i, c>> \in DOMAIN table THEN table[<<i, c>>] ELSE Zero

\* table[i][c] = v
Assign(table, i, c, v) == (<<i, c>> :> v) @@ table

\* nhl_sos[id_from_win_matrix_row[idx]][column_idx] = stat
TableRowByIndex(id_of_row, idx) == idx

TableRow(id_of_row, idx) == id_of_row[idx]

RECURSIVE WriteBack(_, _, _, _, _)
WriteBack(table, sos, id_of_row, col, idx) ==
    IF idx = Cardinality(DOMAIN sos) THEN table
    ELSE WriteBack(Assign(table, TableRow(id_of_row, idx), col, sos[idx]),
                   sos, id_of_row, col, idx + 1)

\* --------------------------------------------- history of consumed games
\* What the game records consumed so far in this season were; the tallies
\* read the record alone, not what the populate loop did with it.
InWindow(g) == start_date <= g.date /\ g.date <= end_date
NonTied(g) == g.away_score # g.home_score
InRange(g) == g.home_id <= MaxValidId /\ g.away_id <= MaxValidId
Listed(g) == g.home_id \in DOMAIN win_matrix_row_from_id
             /\ g.away_id \in DOMAIN win_matrix_row_from_id

NoGames == [in_window |-> 0, qualifying |-> 0, listed |-> 0]

Tally(t, g) ==
    [in_window |-> t.in_window + (IF InWindow(g) THEN 1 ELSE 0),
     qualifying |-> t.qualifying
                    + (IF InWindow(g) /\ NonTied(g) /\ InRange(g) THEN 1 ELSE 0),
     listed |-> t.listed
                + (IF InWindow(g) /\ NonTied(g) /\ InRange(g) /\ Listed(g)
                   THEN 1 ELSE 0)]

\* ------------------------------------------------------ buildSOS, actions
\* numpy.zeros((59, len(seasons_list))): no cell assigned yet
ZeroTable == <<>>

SosInit ==
    /\ pc = "loop"
    /\ column_idx = -1
    /\ start_date = 0
    /\ end_date = 0
    /\ win_matrix_row_from_id = <<>>
    /\ id_from_win_matrix_row = <<>>
    /\ win_matrix = <<>>
    /\ nhl_sos = ZeroTable
    /\ printed = 0
    /\ sos_csv = <<>>
    /\ games_read = 0
    /\ seen = NoGames

\* The three _getStats calls of a season return: dates, standings, and the
\* schedule (consumed one record at a time by ProcessGame).
FetchSeason(sd, ed, s) ==
    /\ pc = "loop"
    /\ column_idx + 1 < NumSeasons
    /\ column_idx' = column_idx + 1
    /\ start_date' = sd
    /\ end_date' = ed
    /\ win_matrix_row_from_id' = RowFromId(s)
    /\ id_from_win_matrix_row' = IdFromRow(RowFromId(s))
    /\ win_matrix' = ZeroMatrix(Cardinality(DOMAIN RowFromId(s)))
    /\ seen' = NoGames
    /\ pc' = "populate"
    /\ UNCHANGED <<nhl_sos, printed, sos_csv, games_read>>

\* One of the three _getStats calls raises (requests timeout, connection
\* error, bad JSON, missing key).  Nothing in buildSOS catches it.
FetchFails ==
    /\ pc = "loop"
    /\ column_idx + 1 < NumSeasons
    /\ column_idx' = column_idx + 1
    /\ pc' = "aborted"
    /\ UNCHANGED <<start_date, end_date, win_matrix_row_from_id,
                   id_from_win_matrix_row, win_matrix, nhl_sos, printed,
                   sos_csv, games_read, seen>>

\* One game record of season_data goes through the populate loop.
ProcessGame(g) ==
    /\ pc = "populate"
    /\ games_read < MaxGames
    /\ LET r == PopulateStep(win_matrix, win_matrix_row_from_id,
                             start_date, end_date, g)
       IN  /\ win_matrix' = r.win_matrix
           /\ printed' = printed + r.printed
    /\ games_read' = games_read + 1
    /\ seen' = Tally(seen, g)
    /\ UNCHANGED <<pc, column_idx, start_date, end_date, win_matrix_row_from_id,
                   id_from_win_matrix_row, nhl_sos, sos_csv>>

\* The schedule is exhausted: opp_plays, ow, oow, sos, then the write-back.
ComputeAndWrite ==
    /\ pc = "populate"
    /\ nhl_sos' = WriteBack(nhl_sos, SOS(win_matrix), id_from_win_matrix_row,
                            column_idx, 0)
    /\ pc' = "loop"
    /\ UNCHANGED <<column_idx, start_date, end_date, win_matrix_row_from_id,
                   id_from_win_matrix_row, win_matrix, printed, sos_csv,
                   games_read, seen>>

\* numpy.savetxt('data/sos.csv', nhl_sos, delimiter=',')
SaveTable ==
    /\ pc = "loop"
    /\ column_idx + 1 = NumSeasons
    /\ sos_csv' = <<nhl_sos>>
    /\ pc' = "done"
    /\ UNCHANGED <<column_idx, start_date, end_date, win_matrix_row_from_id,
                   id_from_win_matrix_row, win_matrix, nhl_sos, printed,
                   games_read, seen>>

\* ---------------------------------------------- buildNameFromIdLookup
\* Python's None, as an id and as a name.
NoId == -1
NoName == 0

ProbeIds == 0..MaxProbeId
Names == 1..MaxNames

\* What the network call of one probe does: it raises, or it returns a
\* response without "teams", or one whose teams[0] has a "name", or one whose
\* teams[0] has only a "locationName".
Responses ==
    {[kind |-> "raises", name |-> NoName], [kind |-> "noteams", name |-> NoName]}
    \cup [kind : {"name", "location"}, name : Names]

\* _testEndpoint(id, dict) on a given outcome of the network call.  unbound is
\* the UnboundLocalError of "return None, name, team_id" when no branch
\* assigned name and team_id.
testEndpoint(id, dict, resp) ==
    IF resp.kind = "raises"
    THEN [unbound |-> FALSE, skipped_id |-> id, name |-> NoName, team_id |-> NoId]
    ELSE IF resp.kind = "noteams"
    THEN [unbound |-> FALSE, skipped_id |-> NoId, name |-> NoName, team_id |-> NoId]
    ELSE IF resp.name \notin DOMAIN dict
    THEN [unbound |-> FALSE, skipped_id |-> NoId, name |-> resp.name, team_id |-> id]
    ELSE [unbound |-> TRUE, skipped_id |-> NoId, name |-> NoName, team_id |-> NoId]

\* dict[name] = team_id
Put(dict, name, team_id) == (name :> team_id) @@ dict

\* skipped_ids.pop(skipped_ids.index(id))
RECURSIVE PopFirst(_, _)
PopFirst(q, id) ==
    IF q = <<>> THEN <<>>
    ELSE IF Head(q) = id THEN Tail(q)
    ELSE <<Head(q)>> \o PopFirst(Tail(q), id)

\* for name, id in id_from_name.items(): name_from_id[id] = name
NameFromId(dict) ==
    [i \in {dict[n] : n \in DOMAIN dict} |->
        CHOOSE n \in DOMAIN dict : dict[n] = i]

LookupInit ==
    /\ lpc = "scan"
    /\ next_id = 0
    /\ skipped_ids = <<>>
    /\ todo = <<>>
    /\ id_from_name = <<>>
    /\ pickles = <<>>
    /\ probed_ok = {}

\* One iteration of "for id in range(10001)".
ScanProbe(resp) ==
    /\ lpc = "scan"
    /\ LET r == testEndpoint(next_id, id_from_name, resp)
       IN  IF r.unbound
           THEN /\ lpc' = "crashed"
                /\ UNCHANGED <<next_id, skipped_ids, id_from_name, probed_ok>>
           ELSE /\ IF r.skipped_id # NoId
                   THEN /\ skipped_ids' = Append(skipped_ids, r.skipped_id)
                        /\ UNCHANGED <<id_from_name, probed_ok>>
                   ELSE /\ id_from_name' = Put(id_from_name, r.name, r.team_id)
                        /\ probed_ok' = probed_ok \cup {next_id}
                        /\ UNCHANGED skipped_ids
                /\ next_id' = next_id + 1
                /\ lpc' = IF next_id = MaxProbeId THEN "retry" ELSE "scan"
    /\ UNCHANGED <<todo, pickles>>

\* "for id in skipped_ids.copy()" starts a pass of the while loop.
RetryStartPass ==
    /\ lpc = "retry"
    /\ todo = <<>>
    /\ skipped_ids # <<>>
    /\ todo' = skipped_ids
    /\ UNCHANGED <<lpc, next_id, skipped_ids, id_from_name, pickles, probed_ok>>

\* One iteration of the pass: the probe of the next queued id.
RetryProbe(resp) ==
    /\ lpc = "retry"
    /\ todo # <<>>
    /\ LET id == Head(todo)
           r == testEndpoint(id, id_from_name, resp)
       IN  IF r.unbound
           THEN /\ lpc' = "crashed"
                /\ UNCHANGED <<todo, skipped_ids, id_from_name, probed_ok>>
           ELSE /\ IF r.skipped_id = NoId
                   THEN /\ id_from_name' = Put(id_from_name, r.name, r.team_id)
                        /\ skipped_ids' = PopFirst(skipped_ids, id)
                        /\ probed_ok' = probed_ok \cup {id}
                   ELSE UNCHANGED <<id_from_name, skipped_ids, probed_ok>>
                /\ todo' = Tail(todo)
                /\ UNCHANGED lpc
    /\ UNCHANGED <<next_id, pickles>>

\* The while loop ends; the two lookups are pickled.
WriteLookups ==
    /\ lpc = "retry"
    /\ todo = <<>>
    /\ skipped_ids = <<>>
    /\ pickles' = <<[id_from_name |-> id_from_name,
                     name_from_id |-> NameFromId(id_from_name)]>>
    /\ lpc' = "done"
    /\ UNCHANGED <<next_id, skipped_ids, todo, id_from_name, probed_ok>>

\* -------------------------------------------------------- specifications
\* ------------------------------------------------ the OW step on its own
\* The OW step (lines 227-235) as a function of the win matrix: the matrix is
\* built one win at a time, any cell, the diagonal included, and OW[t] is
\* then computed for it and for a second matrix.
\* The win matrices that differ from W only in who won the games of team t:
\* the same cells outside row t and column t, the same diagonal cell, and the
\* same number of games between t and every k.
SameButResultsOf(W, W2, t) ==
    /\ DOMAIN W2 = DOMAIN W
    /\ \A i, j \in Rows(W) : (i # t /\ j # t) => W2[i][j] = W[i][j]
    /\ \A k \in Rows(W) : W2[t][k] + W2[k][t] = W[t][k] + W[k][t]

Variants(W, t) ==
    LET others == Rows(W) \ {t}
        splits == {f \in [others -> 0..MaxGames] :
                      \A k \in others : f[k] <= W[t][k] + W[k][t]}
    IN  {[i \in Rows(W) |-> [j \in Rows(W) |->
            IF i = t /\ j # t THEN f[j]
            ELSE IF j = t /\ i # t THEN W[t][i] + W[i][t] - f[i]
            ELSE W[i][j]]] : f \in splits}

OWIdle ==
    /\ ow_team = -1
    /\ ow_other = <<>>
    /\ ow_result = <<>>

OWAddWin(i, j) ==
    /\ ow_result = <<>>
    /\ SumInt([r \in Rows(win_matrix) |-> RowSum(win_matrix, r)],
              NumRows(win_matrix)) < MaxGames
    /\ win_matrix' = [win_matrix EXCEPT ![i][j] = @ + 1]
    /\ UNCHANGED <<pc, column_idx, start_date, end_date, win_matrix_row_from_id,
                   id_from_win_matrix_row, nhl_sos, printed, sos_csv,
                   games_read, seen, lookupVars, owVars>>

OWCompare(t, W2) ==
    /\ ow_result = <<>>
    /\ ow_team' = t
    /\ ow_other' = W2
    /\ ow_result' = <<OWOf(win_matrix, t), OWOf(W2, t)>>
    /\ UNCHANGED <<sosVars, lookupVars>>

Init == SosInit /\ LookupInit /\ OWIdle

Next ==
    \/ \E sd \in 1..(MaxDate - 1) : \E ed \in sd..(MaxDate - 1) :
         \E s \in Standings : FetchSeason(sd, ed, s) /\ UNCHANGED <<lookupVars, owVars>>
    \/ FetchFails /\ UNCHANGED <<lookupVars, owVars>>
    \/ \E g \in Games : ProcessGame(g) /\ UNCHANGED <<lookupVars, owVars>>
    \/ ComputeAndWrite /\ UNCHANGED <<lookupVars, owVars>>
    \/ SaveTable /\ UNCHANGED <<lookupVars, owVars>>

\* buildSOS
Spec == Init /\ [][Next]_vars

OWInit ==
    /\ LookupInit
    /\ OWIdle
    /\ pc = "ow"
    /\ column_idx = -1
    /\ start_date = 0
    /\ end_date = 0
    /\ win_matrix_row_from_id = <<>>
    /\ id_from_win_matrix_row = <<>>
    /\ win_matrix \in {ZeroMatrix(n) : n \in 1..MaxTeams}
    /\ nhl_sos = ZeroTable
    /\ printed = 0
    /\ sos_csv = <<>>
    /\ games_read = 0
    /\ seen = NoGames

OWNext ==
    \/ \E i, j \in Rows(win_matrix) : OWAddWin(i, j)
    \/ \E t \in Rows(win_matrix) : \E W2 \in Variants(win_matrix, t) :
         OWCompare(t, W2)

\* the OW step of buildSOS on every win matrix within the bounds
OWSpec == OWInit /\ [][OWNext]_vars

LookupNext ==
    \/ \E resp \in Responses : ScanProbe(resp) /\ UNCHANGED <<sosVars, owVars>>
    \/ RetryStartPass /\ UNCHANGED <<sosVars, owVars>>
    \/ \E resp \in Responses : RetryProbe(resp) /\ UNCHANGED <<sosVars, owVars>>
    \/ WriteLookups /\ UNCHANGED <<sosVars, owVars>>

\* The probe of a queued id whose network call returns a response.
RetryAnswered(id) ==
    \E resp \in Responses :
        /\ resp.kind # "raises"
        /\ todo # <<>> /\ Head(todo) = id
        /\ RetryProbe(resp) /\ UNCHANGED <<sosVars, owVars>>

\* buildNameFromIdLookup, where the program keeps running while it can and
\* no id's network call raises for ever.
LookupSpec ==
    /\ Init
    /\ [][LookupNext]_vars
    /\ WF_vars(LookupNext)
    /\ \A id \in ProbeIds : SF_vars(RetryAnswered(id))

\* ================================================================ claims
\* The season of column column_idx has been computed and written, and
\* win_matrix, the row dictionaries and the tallies are still that season's.
SeasonWritten == pc \in {"loop", "done"} /\ column_idx >= 0

MatrixSum(W) == SumInt([i \in Rows(W) |-> RowSum(W, i)], NumRows(W))

\* a float in [0, 1]
InUnit(v) == IsFinite(v) /\ 0 <= v.n /\ v.n <= v.d

\* C1: once a season is written, every team listed in its standings that
\* played no game of it (row sum plus column sum 0) has SOS exactly 0 in the
\* table (not nan).
C1_ZeroGamesZeroSOS ==
    SeasonWritten =>
        \A id \in DOMAIN win_matrix_row_from_id :
            gamesPlayed(win_matrix)[win_matrix_row_from_id[id]] = 0
                => Cell(nhl_sos, id, column_idx) = Zero

\* C2: once a season is written, every team with games played > 0 has OW,
\* OOW and SOS in [0, 1], whatever the other teams of the standings did.
C2_UnitInterval ==
    SeasonWritten =>
        \A t \in Rows(win_matrix) :
            gamesPlayed(win_matrix)[t] > 0
                => /\ InUnit(OW(win_matrix)[t])
                   /\ InUnit(OOW(win_matrix)[t])
                   /\ InUnit(SOS(win_matrix)[t])
                   /\ InUnit(Cell(nhl_sos, id_from_win_matrix_row[t], column_idx))

\* C3 as claimed: after the populate loop has gone through any list of games,
\* the cells of win_matrix sum to the number of non-tied, in-window games
\* whose two ids are in the valid range.
C3_SumCountsInRange == MatrixSum(win_matrix) = seen.qualifying

\* C3 as amended: the cells of win_matrix sum to the number of non-tied,
\* in-window games whose two ids are in the valid range and are both listed
\* in the season's standings.
C3_SumCountsListed == MatrixSum(win_matrix) = seen.listed

\* C3: three in-window games went through the loop, one counted, one with an
\* unlisted id, one tied or out of range.
C3_Witness ==
    /\ pc = "populate"
    /\ seen = [in_window |-> 3, qualifying |-> 2, listed |-> 1]
    /\ MatrixSum(win_matrix) = 1

\* C4: a season whose fetch fails does not abort the run.
C4_FetchFailureNotFatal == pc # "aborted"

\* C5: a step that consumes a non-tied, in-window game with both ids in the
\* valid range but one of them not listed in the standings leaves win_matrix
\* as it was, prints one report and stays in the populate loop; and a season
\* in which that happened is still computed and written: its column holds the
\* SOS of the matrix of the listed games.
C5_UnlistedIdSkipped ==
    /\ [][(seen'.qualifying = seen.qualifying + 1 /\ seen'.listed = seen.listed)
            => /\ pc = "populate" /\ pc' = "populate"
               /\ win_matrix' = win_matrix
               /\ printed' = printed + 1]_vars
    /\ [](SeasonWritten /\ seen.qualifying > seen.listed
            => /\ MatrixSum(win_matrix) = seen.listed
               /\ \A id \in DOMAIN win_matrix_row_from_id :
                    Cell(nhl_sos, id, column_idx)
                        = SOS(win_matrix)[win_matrix_row_from_id[id]])

\* C5: a season with an unlisted-id game and a counted game has been written.
C5_Witness ==
    /\ SeasonWritten
    /\ seen.qualifying > seen.listed
    /\ seen.listed >= 1
    /\ printed >= 1

\* C6: the write-back of a season sets, for every id of the standings, the
\* cell (id, column) to the SOS of the row assigned to that id; every other
\* cell of the column stays 0.0; no cell of another column changes.
C6_WriteBack ==
    [][(pc = "populate" /\ pc' = "loop")
        => /\ \A id \in DOMAIN win_matrix_row_from_id :
                Cell(nhl_sos', id, column_idx)
                    = SOS(win_matrix)[win_matrix_row_from_id[id]]
           /\ \A i \in (0..(TableRows - 1)) \ DOMAIN win_matrix_row_from_id :
                /\ Cell(nhl_sos, i, column_idx) = Zero
                /\ Cell(nhl_sos', i, column_idx) = Zero
           /\ \A cell \in TableCells :
                cell[2] # column_idx
                    => Cell(nhl_sos', cell[1], cell[2])
                        = Cell(nhl_sos, cell[1], cell[2])]_vars

\* C6: the second season is written, with a non-zero SOS in [0, 1] for a team
\* whose row is not its place among the ids, next to a cell of the first
\* season that holds something other than 0.0.
C6_Witness ==
    /\ SeasonWritten
    /\ column_idx = 1
    /\ \E id \in DOMAIN win_matrix_row_from_id :
        /\ win_matrix_row_from_id[id] # id - 1
        /\ InUnit(Cell(nhl_sos, id, 1))
        /\ Cell(nhl_sos, id, 1) # Zero
    /\ \E i \in TeamIds : Cell(nhl_sos, i, 0) # Zero

\* C7: in a written season with exactly two teams whose only in-window game
\* is a win of row a over row b, win_matrix has that one entry, played[a][b]
\* is 1, OW and SOS of both teams are 0, and 0 is what the table holds.
C7_TwoTeamsOneGame ==
    \A a, b \in Rows(win_matrix) :
        (/\ SeasonWritten
         /\ NumRows(win_matrix) = 2
         /\ a # b
         /\ seen.in_window = 1
         /\ win_matrix[a][b] = 1)
        => /\ win_matrix = [i \in 0..1 |-> [j \in 0..1 |->
                                IF i = a /\ j = b THEN 1 ELSE 0]]
           /\ OppPlays(win_matrix)[a][b] = 1
           /\ OW(win_matrix) = [i \in 0..1 |-> Zero]
           /\ SOS(win_matrix) = [i \in 0..1 |-> Zero]
           /\ Cell(nhl_sos, id_from_win_matrix_row[a], column_idx) = Zero
           /\ Cell(nhl_sos, id_from_win_matrix_row[b], column_idx) = Zero

\* C7: such a season has been written (the first listed team won), after a
\* game outside the window was skipped.
C7_Witness ==
    /\ SeasonWritten
    /\ NumRows(win_matrix) = 2
    /\ seen.in_window = 1
    /\ games_read = 2
    /\ win_matrix = <<>> @@ [i \in 0..1 |-> [j \in 0..1 |->
                                IF i = 0 /\ j = 1 THEN 1 ELSE 0]]

\* C8: OW[t] does not depend on who won t's own games: two win matrices
\* that are the same outside row t and column t and have the same number of
\* games between t and every k (the diagonal cell of t included) give the
\* same OW[t].
C8_SelfExclusion ==
    (ow_result # <<>> /\ SameButResultsOf(win_matrix, ow_other, ow_team))
        => ow_result[1] = ow_result[2]

\* C8: OW[t] was computed for two different such matrices, t has a game on
\* its diagonal cell, and OW[t] is neither 0 nor nan.
C8_Witness ==
    /\ ow_result # <<>>
    /\ SameButResultsOf(win_matrix, ow_other, ow_team)
    /\ ow_other # win_matrix
    /\ win_matrix[ow_team][ow_team] > 0
    /\ InUnit(ow_result[1])
    /\ ow_result[1] # Zero

InQueue(q, id) == \E k \in DOMAIN q : q[k] = id

\* C9, the queue: an id leaves skipped_ids only in a step in which a probe of
\* it returned a response; every id whose probe is behind it is either queued
\* or has had such a probe; the lookups are written only with an empty queue.
C9_QueueSafety ==
    /\ [][\A id \in ProbeIds :
            (InQueue(skipped_ids, id) /\ ~InQueue(skipped_ids', id))
                => (id \notin probed_ok /\ id \in probed_ok')]_vars
    /\ [](lpc # "crashed" =>
            \A id \in ProbeIds :
                id < next_id => (InQueue(skipped_ids, id) \/ id \in probed_ok))
    /\ [](pickles # <<>> => skipped_ids = <<>>)

\* C9: network exceptions never fail the run, the retry queue is kept as
\* stated and, no id's network call raising for ever, the retry loop ends
\* with the lookups written and a successful probe of every id.
C9_RetryQueue ==
    /\ C9_QueueSafety
    /\ <>(lpc = "done" /\ pickles # <<>> /\ probed_ok = ProbeIds)

\* C10: a probe whose network call returns a response always returns a
\* tuple: the run of buildNameFromIdLookup never ends in the
\* UnboundLocalError of _testEndpoint.
C10_ProbeReturnsTuple == lpc # "crashed"
====
